---- MODULE Spec2Model ----
(***************************************************************************)
(* Model of the solar customer-support sample:                             *)
(*   - SolarCustomerDynamoDB (utils/customer_dynamodb.py): the table       *)
(*     store, the table-name pointer in the parameter store, and the       *)
(*     client operations over them;                                        *)
(*   - check_warranty_status (customer_profile_tools_dynamodb.py).         *)
(* The table store and the parameter store are modelled by what the calls  *)
(* the client issues do to them; every external call may also fail with an *)
(* error other than the one the client names in its except clause.         *)
(***************************************************************************)
EXTENDS Integers, Sequences, FiniteSets, TLC

\* ------------------------------------------------------------------ bounds
MaxClock == 3
MaxCount == 1
MaxPurchases == 2

\* --------------------------------------------------------------- constants
DefaultTable == "SolarCustomerProfiles"
TableNames == {DefaultTable, "OtherTable"}
None == "None"
TableArgs == TableNames \cup {None}
ArchiveTable == "ArchiveTable"
AllTables == TableNames \cup {ArchiveTable}
DataTableArgs == {None}
NoParam == "ParameterNotFound"
Procs == {"p1", "p2"}

Fields ==
  {"customer_id", "name", "email", "country", "state", "purchase_history",
   "preferences", "created_at", "updated_at"}

\* f"CUST{100+i}"
CustomerIdTable == <<"CUST100", "CUST101", "CUST102", "CUST103">>
CustomerId(i) == CustomerIdTable[i + 1]
EmailTable ==
  <<"customer1@example.com", "customer2@example.com", "customer3@example.com",
    "customer4@example.com">>
CustomerEmail(i) == EmailTable[i + 1]
UnknownCustomer == "CUST999"
CustomerArgs == {CustomerId(i) : i \in 0..(MaxCount - 1)} \cup {UnknownCustomer}
EmailArgs == {CustomerEmail(0), "dup@example.com"}

EmptyItems == [c \in {} |-> 0]

\* `table_name = table_name or self.table_name`
ResolveName(t) == IF t = None THEN DefaultTable ELSE t

\* The update dictionaries a caller passes: any of name, email and its own
\* updated_at (None: the key is not in the dictionary; Absent likewise for the
\* timestamp).
Absent == -1
Updates(n, e, s) ==
  [f \in {g \in {"name", "email", "updated_at"} :
            \/ g = "name" /\ n # None
            \/ g = "email" /\ e # None
            \/ g = "updated_at" /\ s # Absent} |->
     CASE f = "name" -> n
       [] f = "email" -> e
       [] f = "updated_at" -> s]
UpdateArgs ==
  {Updates(n, None, Absent) : n \in {None, "A", "B"}}
    \cup {Updates(n, "dup@example.com", 0) : n \in {None, "B"}}

VARIABLES
  exists,   \* the tables of the table store
  items,    \* items[t][cid]: the record stored in table t under key cid
  ssm,      \* the parameter 'solar-customer-table-name', or NoParam
  clock,    \* the wall clock datetime.now() reads
  pc,       \* pc[p]: where process p stands in update_profile
  loc,      \* loc[p]: update_profile's locals
  lastw,    \* lastw[t][cid][f]: the value the latest write call that
            \* supplied attribute f of item cid of table t supplied for it
  last,     \* the call that completed last, with its result
  wreq,     \* check_warranty_status: the arguments, the profile and today
  wres,     \* check_warranty_status: the result returned
  areq,     \* analyze_solar_system_performance: the arguments and the profile
  ares,     \* analyze_solar_system_performance: the result returned
  tres,     \* the support tool called last over the profile store, with
            \* its arguments, its result and the lookups it made
  jira,     \* whether the issue tracker client and PROJECT_KEY are set
  issues,   \* the issues of the issue tracker, in the order created
  jres      \* the ticket tool called last, with its result

vars == <<exists, items, ssm, clock, pc, loc, lastw, last, wreq, wres,
          areq, ares, tres, jira, issues, jres>>
tickets == <<jira, issues, jres>>
warranty == <<wreq, wres>>
analysis == <<areq, ares>>

\* -------------------------------------------------------- the two stores
\* What a call that completed leaves in `last`: the call, its arguments, its
\* result, and what the call found when it started (whether the table was
\* there, what the pointer held, the updated_at the existence check read).
Outcome(op, p, tn, cid, f, res, upd, seenAt) ==
  [op |-> op, proc |-> p, tn |-> tn, cid |-> cid, fail |-> f, res |-> res,
   upd |-> upd, seenAt |-> seenAt, existed |-> (tn \in exists),
   prePtr |-> ssm]

\* SET #k = :k for every key of the update dictionary: the keys supplied take
\* the supplied values, the other attributes of the item stay.
Merge(item, updates) ==
  [f \in (DOMAIN item) \cup (DOMAIN updates) |->
     IF f \in DOMAIN updates THEN updates[f] ELSE item[f]]

\* updates.setdefault('updated_at', ...): the caller's own stamp is kept.
StampIfAbsent(updates, now) ==
  IF "updated_at" \in DOMAIN updates THEN updates
  ELSE Merge(updates, [f \in {"updated_at"} |-> now])

\* updates['updated_at'] = datetime.now().isoformat()
Stamp(updates, now) == Merge(updates, [f \in {"updated_at"} |-> now])

\* A write that replaces the item by its key and the supplied attributes.
update_item_replaces(its, cid, updates) ==
  [c \in (DOMAIN its) \cup {cid} |->
     IF c = cid THEN Merge([f \in {"customer_id"} |-> cid], updates) ELSE its[c]]

\* table.update_item(Key, UpdateExpression = SET ...): creates the item when
\* the key is not in the table.
update_item(its, cid, updates) ==
  LET old == IF cid \in DOMAIN its THEN its[cid]
             ELSE [f \in {"customer_id"} |-> cid]
      new == Merge(old, updates)
  IN [c \in (DOMAIN its) \cup {cid} |-> IF c = cid THEN new ELSE its[c]]

\* table.put_item(Item): replaces the item.
put_item(its, item) ==
  [c \in (DOMAIN its) \cup {item["customer_id"]} |->
     IF c = item["customer_id"] THEN item ELSE its[c]]

\* The record of the values written latest, after a write call to item cid
\* that supplied the attributes of `supplied`.
Supplied(lw, cid, supplied) ==
  LET old == IF cid \in DOMAIN lw THEN lw[cid] ELSE EmptyItems
  IN [c \in (DOMAIN lw) \cup {cid} |->
        IF c = cid
          THEN [f \in (DOMAIN old) \cup (DOMAIN supplied) |->
                  IF f \in DOMAIN supplied THEN supplied[f] ELSE old[f]]
          ELSE lw[c]]

\* ---------------------------------------------------------- create_table
CreateFailures == {"none", "create_table", "put_parameter"}

\* create_table without the put_parameter of the except branch.
create_table_keeps_pointer(tn, f, ex, its, sm) ==
  IF f = "create_table"
    THEN [exists |-> ex, items |-> its, ssm |-> sm, res |-> "raised"]
  ELSE IF tn \notin ex
    THEN [exists |-> ex \cup {tn}, items |-> [its EXCEPT ![tn] = EmptyItems],
          ssm |-> IF f = "put_parameter" THEN sm ELSE tn,
          res |-> IF f = "put_parameter" THEN "raised" ELSE tn]
  ELSE [exists |-> ex, items |-> its, ssm |-> sm, res |-> tn]

\* The stores and the result after create_table(tn) when the external call
\* f fails with an error other than ResourceInUseException.
create_table(tn, f, ex, its, sm) ==
  IF f = "create_table"
    THEN [exists |-> ex, items |-> its, ssm |-> sm, res |-> "raised"]
  ELSE IF tn \notin ex
    THEN IF f = "put_parameter"
           THEN [exists |-> ex \cup {tn},
                 items |-> [its EXCEPT ![tn] = EmptyItems],
                 ssm |-> sm, res |-> "raised"]
           ELSE [exists |-> ex \cup {tn},
                 items |-> [its EXCEPT ![tn] = EmptyItems],
                 ssm |-> tn, res |-> tn]
  ELSE IF f = "put_parameter"
    THEN [exists |-> ex, items |-> its, ssm |-> sm, res |-> "raised"]
    ELSE [exists |-> ex, items |-> its, ssm |-> tn, res |-> tn]

CreateTable(t, f) ==
  LET tn == ResolveName(t)
      r == create_table(tn, f, exists, items, ssm)
  IN /\ exists' = r.exists
     /\ items' = r.items
     /\ ssm' = r.ssm
     /\ lastw' = IF tn \in r.exists /\ tn \notin exists
                   THEN [lastw EXCEPT ![tn] = EmptyItems] ELSE lastw
     /\ last' = Outcome("create_table", "admin", tn, None, f, r.res, EmptyItems, Absent)
     /\ UNCHANGED <<clock, pc, loc, warranty, analysis, tres, tickets>>

\* ---------------------------------------------------------- delete_table
DeleteFailures ==
  {"none", "describe_table", "delete_table", "get_parameter", "delete_parameter"}

\* if ssm_table and (ssm_table == table_name or table_name is None)
PointsAt(sm, tn) == sm # NoParam /\ (sm = tn \/ tn = None)

\* delete_table without the table_exists check: deleting an absent table fails.
delete_table_unchecked(tn, f, ex, its, sm) ==
  IF f = "describe_table"
    THEN [exists |-> ex, items |-> its, ssm |-> sm, res |-> "raised"]
  ELSE
    LET deleted == tn \in ex /\ f # "delete_table"
        cleared == f # "get_parameter" /\ PointsAt(sm, tn) /\ f # "delete_parameter"
    IN [exists |-> IF deleted THEN ex \ {tn} ELSE ex,
        items |-> IF deleted THEN [its EXCEPT ![tn] = EmptyItems] ELSE its,
        ssm |-> IF cleared THEN NoParam ELSE sm,
        res |-> IF deleted /\ (cleared \/ (f = "none" /\ ~PointsAt(sm, tn)))
                  THEN "True" ELSE "False"]

\* delete_table deleting the parameter whatever table it names.
delete_table_clears_any(tn, f, ex, its, sm) ==
  IF f = "describe_table"
    THEN [exists |-> ex, items |-> its, ssm |-> sm, res |-> "raised"]
  ELSE
    LET deleted == tn \in ex /\ f # "delete_table"
        cleared == f \notin {"get_parameter", "delete_parameter"} /\ sm # NoParam
    IN [exists |-> IF deleted THEN ex \ {tn} ELSE ex,
        items |-> IF deleted THEN [its EXCEPT ![tn] = EmptyItems] ELSE its,
        ssm |-> IF cleared THEN NoParam ELSE sm,
        res |-> IF (tn \notin ex \/ deleted)
                     /\ f # "get_parameter"
                     /\ ~(sm # NoParam /\ f = "delete_parameter")
                  THEN "True" ELSE "False"]

\* delete_table leaving the parameter as it is.
delete_table_keeps_pointer(tn, f, ex, its, sm) ==
  IF f = "describe_table"
    THEN [exists |-> ex, items |-> its, ssm |-> sm, res |-> "raised"]
  ELSE
    LET deleted == tn \in ex /\ f # "delete_table"
    IN [exists |-> IF deleted THEN ex \ {tn} ELSE ex,
        items |-> IF deleted THEN [its EXCEPT ![tn] = EmptyItems] ELSE its,
        ssm |-> sm,
        res |-> IF tn \notin ex \/ deleted THEN "True" ELSE "False"]

delete_table(tn, f, ex, its, sm) ==
  IF f = "describe_table"
    THEN [exists |-> ex, items |-> its, ssm |-> sm, res |-> "raised"]
  ELSE
    LET deleted == tn \in ex /\ f # "delete_table"
        cleaned_up_table == tn \notin ex \/ deleted
        cleared == f # "get_parameter" /\ PointsAt(sm, tn) /\ f # "delete_parameter"
        cleaned_up_ssm ==
          /\ f # "get_parameter"
          /\ ~(PointsAt(sm, tn) /\ f = "delete_parameter")
    IN [exists |-> IF deleted THEN ex \ {tn} ELSE ex,
        items |-> IF deleted THEN [its EXCEPT ![tn] = EmptyItems] ELSE its,
        ssm |-> IF cleared THEN NoParam ELSE sm,
        res |-> IF cleaned_up_table /\ cleaned_up_ssm THEN "True" ELSE "False"]

DeleteTable(t, f) ==
  LET tn == ResolveName(t)
      r == delete_table(tn, f, exists, items, ssm)
  IN /\ exists' = r.exists
     /\ items' = r.items
     /\ ssm' = r.ssm
     /\ lastw' = IF tn \in exists /\ tn \notin r.exists
                   THEN [lastw EXCEPT ![tn] = EmptyItems] ELSE lastw
     /\ last' = Outcome("delete_table", "admin", tn, None, f, r.res, EmptyItems, Absent)
     /\ UNCHANGED <<clock, pc, loc, warranty, analysis, tres, tickets>>

\* ------------------------------------------- generate_synthetic_profiles
NameTable == <<"Customer 1", "Customer 2", "Customer 3", "Customer 4">>
countries == <<"USA", "Canada", "Australia", "UK", "Germany">>
states(country) ==
  CASE country = "USA" -> <<"California", "Texas", "New York", "Florida", "Washington">>
    [] country = "Canada" -> <<"Ontario", "Quebec", "British Columbia", "Alberta">>
    [] country = "Australia" -> <<"New South Wales", "Victoria", "Queensland">>
    [] country = "UK" -> <<"England", "Scotland", "Wales">>
    [] country = "Germany" -> <<"Bavaria", "Berlin", "Hesse">>
products ==
  <<[name |-> "SunPower X", price |-> 1200, type |-> "panel"],
    [name |-> "SunPower Y", price |-> 800, type |-> "panel"],
    [name |-> "SunPower Double-X", price |-> 1600, type |-> "panel"],
    [name |-> "PowerWall Battery", price |-> 5000, type |-> "battery"],
    [name |-> "SolarInverter X1", price |-> 1500, type |-> "inverter"],
    [name |-> "EcoCharge Controller", price |-> 300, type |-> "controller"]>>

\* The purchase j of profile i; its date is today's with month and day replaced.
synthetic_purchase(i, j) ==
  LET product == products[((i + j) % Len(products)) + 1]
  IN [purchase_id |-> <<"PUR", 100 + i, j>>,
      product_name |-> product.name,
      product_type |-> product.type,
      price |-> product.price,
      quantity |-> (j % 2) + 1,
      purchase_date |-> [month |-> ((i + j) % 12) + 1, day |-> ((i * j) % 28) + 1]]

\* profile_data of profile i, stamped with the clock reading now.
synthetic_profile(i, now) ==
  LET country == countries[(i % Len(countries)) + 1]
      purchase_count == (i % 3) + 1
  IN [f \in Fields |->
        CASE f = "customer_id" -> CustomerId(i)
          [] f = "name" -> NameTable[i + 1]
          [] f = "email" -> CustomerEmail(i)
          [] f = "country" -> country
          [] f = "state" -> states(country)[(i % Len(states(country))) + 1]
          [] f = "purchase_history" ->
               [j \in 1..purchase_count |-> synthetic_purchase(i, j - 1)]
          [] f = "preferences" ->
               [contact_preference |-> IF i % 2 = 0 THEN "email" ELSE "phone",
                newsletter |-> (i % 3 = 0),
                maintenance_reminder |-> (i % 2 = 0)]
          [] f = "created_at" -> now
          [] f = "updated_at" -> now]

\* The items of the table after the first n profiles were put, profile i
\* stamped base + i + 1 (the clock moves on over each put_item round trip).
RECURSIVE PutProfiles(_, _, _)
PutProfiles(its, n, base) ==
  IF n = 0 THEN its
  ELSE put_item(PutProfiles(its, n - 1, base), synthetic_profile(n - 1, base + n))

\* The latest values written once the first n profiles were put: a put_item
\* supplies every attribute of its item.
RECURSIVE PutSupplied(_, _, _)
PutSupplied(lw, n, base) ==
  IF n = 0 THEN lw
  ELSE Supplied(PutSupplied(lw, n - 1, base), CustomerId(n - 1),
                synthetic_profile(n - 1, base + n))

\* No try block: put_item on a table that does not exist, or failing for any
\* other reason, raises out of the method (before anything is stored here: the
\* failure is injected at the first put_item).
GenerateSyntheticProfiles(count, t, f) ==
  LET tn == ResolveName(t)
      ok == count = 0 \/ (tn \in exists /\ f = "none")
  IN /\ clock + count <= MaxClock
     /\ items' = IF ok THEN [items EXCEPT ![tn] = PutProfiles(@, count, clock)]
                 ELSE items
     /\ lastw' = IF ok THEN [lastw EXCEPT ![tn] = PutSupplied(@, count, clock)]
                 ELSE lastw
     /\ clock' = IF ok THEN clock + count ELSE clock
     /\ last' = Outcome("generate_synthetic_profiles", "admin", tn, None, f,
                        IF ok THEN "list" ELSE "raised", EmptyItems, Absent)
     /\ UNCHANGED <<exists, ssm, pc, loc, warranty, analysis, tres, tickets>>

\* ------------------------------------------------------------ the lookups
\* get_profile_by_id: every exception of get_item (the table missing among
\* them) is caught and gives None, as does a key that is not in the table.
get_profile_by_id(cid, tn, f, ex, its) ==
  IF f = "get_item" \/ tn \notin ex \/ cid \notin DOMAIN its[tn]
    THEN [found |-> FALSE, item |-> EmptyItems]
    ELSE [found |-> TRUE, item |-> its[tn][cid]]

\* An update that goes on to the write whatever the lookup found.
update_profile_unchecked(cid, tn, f, ex, its) ==
  [found |-> TRUE, item |-> get_profile_by_id(cid, tn, f, ex, its).item]

\* profile = self.get_profile_by_id(customer_id, table_name)
\* if not profile: return None
update_profile_check(cid, tn, f, ex, its) ==
  get_profile_by_id(cid, tn, f, ex, its)

\* The updated_at of the profile the existence check read.
SeenAt(item) == IF "updated_at" \in DOMAIN item THEN item["updated_at"] ELSE Absent

\* The keys the EmailIndex query returns for an email.
EmailMatches(email, its) ==
  {c \in DOMAIN its : "email" \in DOMAIN its[c] /\ its[c]["email"] = email}

GetProfileById(cid, t, f) ==
  LET tn == ResolveName(t)
      g == get_profile_by_id(cid, tn, f, exists, items)
  IN /\ last' = Outcome("get_profile_by_id", "reader", tn, cid, f,
                        IF g.found THEN "item" ELSE "None", EmptyItems, Absent)
     /\ UNCHANGED <<exists, items, ssm, clock, pc, loc, lastw, warranty, analysis, tres, tickets>>

\* response['Items'][0]: the query gives no order, any match may come first.
GetProfileByEmail(email, t, f) ==
  LET tn == ResolveName(t)
      hits == IF f = "query" \/ tn \notin exists THEN {}
              ELSE EmailMatches(email, items[tn])
  IN /\ \/ /\ hits = {}
           /\ last' = Outcome("get_profile_by_email", "reader", tn, email, f,
                              "None", EmptyItems, Absent)
        \/ \E c \in hits :
             last' = Outcome("get_profile_by_email", "reader", tn, email, f, c,
                             EmptyItems, Absent)
     /\ UNCHANGED <<exists, items, ssm, clock, pc, loc, lastw, warranty, analysis, tres, tickets>>

\* table_exists catches ResourceNotFoundException alone.
table_exists(tn, f, ex) ==
  IF f = "describe_table" THEN "raised"
  ELSE IF tn \in ex THEN "True" ELSE "False"

TableExists(tn, f) ==
  /\ last' = Outcome("table_exists", "reader", tn, None, f,
                     table_exists(tn, f, exists), EmptyItems, Absent)
  /\ UNCHANGED <<exists, items, ssm, clock, pc, loc, lastw, warranty, analysis, tres, tickets>>

\* get_table_name_from_ssm catches ParameterNotFound alone.
get_table_name_from_ssm(f, sm) ==
  IF f = "get_parameter" THEN "raised"
  ELSE IF sm = NoParam THEN None ELSE sm

GetTableNameFromSsm(f) ==
  /\ last' = Outcome("get_table_name_from_ssm", "reader", None, None, f,
                     get_table_name_from_ssm(f, ssm), EmptyItems, Absent)
  /\ UNCHANGED <<exists, items, ssm, clock, pc, loc, lastw, warranty, analysis, tres, tickets>>

\* --------------------------------------------------------- update_profile
IdleLocals ==
  [cid |-> None, tn |-> None, updates |-> EmptyItems, supplied |-> EmptyItems,
   profile |-> Absent]

\* Lines 291-299: the existence check, then the stamp. The clock reading
\* follows the get_item round trip, so it is later than every stamp stored.
UpdateCheck(p, cid, u, t, f) ==
  LET tn == ResolveName(t)
      g == update_profile_check(cid, tn, f, exists, items)
  IN /\ pc[p] = "idle"
     /\ \/ /\ ~g.found
           /\ last' = Outcome("update_profile", p, tn, cid, f, "None", u,
                              Absent)
           /\ UNCHANGED <<clock, pc, loc>>
        \/ /\ g.found
           /\ clock < MaxClock
           /\ clock' = clock + 1
           /\ pc' = [pc EXCEPT ![p] = "write"]
           /\ loc' = [loc EXCEPT ![p] =
                        [cid |-> cid, tn |-> tn, updates |-> Stamp(u, clock + 1),
                         supplied |-> u, profile |-> SeenAt(g.item)]]
           /\ last' = Outcome("update_profile.check", p, tn, cid, f, "found",
                              u, SeenAt(g.item))
     /\ UNCHANGED <<exists, items, ssm, lastw, warranty, analysis, tres, tickets>>

\* Lines 301-326: the update_item call; every exception gives None.
UpdateWrite(p, f) ==
  LET l == loc[p]
      ok == f = "none" /\ l.tn \in exists
      its == update_item(items[l.tn], l.cid, l.updates)
  IN /\ pc[p] = "write"
     /\ items' = IF ok THEN [items EXCEPT ![l.tn] = its] ELSE items
     /\ lastw' = IF ok
                   THEN [lastw EXCEPT ![l.tn] = Supplied(@, l.cid, l.updates)]
                   ELSE lastw
     /\ pc' = [pc EXCEPT ![p] = "idle"]
     /\ loc' = [loc EXCEPT ![p] = IdleLocals]
     /\ last' = Outcome("update_profile", p, l.tn, l.cid, f,
                        IF ok THEN "item" ELSE "None", l.supplied, l.profile)
     /\ UNCHANGED <<exists, ssm, clock, warranty, analysis, tres, tickets>>

\* ------------------------------------------------- check_warranty_status
\* Strings the function searches are sequences of characters.
UpperCase ==
  <<"A", "B", "C", "D", "E", "F", "G", "H", "I", "J", "K", "L", "M", "N", "O",
    "P", "Q", "R", "S", "T", "U", "V", "W", "X", "Y", "Z">>
LowerCase ==
  <<"a", "b", "c", "d", "e", "f", "g", "h", "i", "j", "k", "l", "m", "n", "o",
    "p", "q", "r", "s", "t", "u", "v", "w", "x", "y", "z">>

\* str.lower()
Lower(str) ==
  [i \in 1..Len(str) |->
     IF \E k \in 1..Len(UpperCase) : UpperCase[k] = str[i]
       THEN LowerCase[CHOOSE k \in 1..Len(UpperCase) : UpperCase[k] = str[i]]
       ELSE str[i]]

\* sub in str
Contains(sub, str) ==
  \E i \in 0..(Len(str) - Len(sub)) : SubSeq(str, i + 1, i + Len(sub)) = sub

SunPower == <<"S", "u", "n", "P", "o", "w", "e", "r">>
SunPowerX == <<"S", "u", "n", "P", "o", "w", "e", "r", " ", "X">>
SunPowerY == <<"S", "u", "n", "P", "o", "w", "e", "r", " ", "Y">>
SunPowerDoubleX == <<"S", "u", "n", "P", "o", "w", "e", "r", " ", "D", "o", "u", "b", "l", "e", "-", "X">>
SolarInverterX1 == <<"S", "o", "l", "a", "r", "I", "n", "v", "e", "r", "t", "e", "r", " ", "X", "1">>
PowerWallBattery == <<"P", "o", "w", "e", "r", "W", "a", "l", "l", " ", "B", "a", "t", "t", "e", "r", "y">>
InverterType == <<"i", "n", "v", "e", "r", "t", "e", "r">>
PanelType == <<"p", "a", "n", "e", "l">>
BatteryType == <<"b", "a", "t", "t", "e", "r", "y">>
Cust100 == <<"C", "U", "S", "T", "1", "0", "0">>
SunPowerFilter == <<"s", "u", "n", "p", "o", "w", "e", "r">>

\* The calendar of datetime: leap years, month lengths, day ordinals.
IsLeap(y) == y % 4 = 0 /\ (y % 100 # 0 \/ y % 400 = 0)
DaysInMonth(y, m) ==
  IF m = 2 THEN (IF IsLeap(y) THEN 29 ELSE 28)
  ELSE IF m \in {4, 6, 9, 11} THEN 30 ELSE 31
DaysBeforeYear(y) ==
  (y - 1) * 365 + ((y - 1) \div 4) - ((y - 1) \div 100) + ((y - 1) \div 400)
RECURSIVE DaysBeforeMonth(_, _)
DaysBeforeMonth(y, m) ==
  IF m = 1 THEN 0 ELSE DaysBeforeMonth(y, m - 1) + DaysInMonth(y, m - 1)
ToOrdinal(dt) == DaysBeforeYear(dt.y) + DaysBeforeMonth(dt.y, dt.m) + dt.d
Hours(dt) == ToOrdinal(dt) * 24 + dt.h

\* A purchase_date_str in ISO format, with a UTC offset or without.
IsoDate(y, m, d, h, aware) ==
  [kind |-> "iso", y |-> y, m |-> m, d |-> d, h |-> h, aware |-> aware]

\* datetime.fromisoformat(purchase_date_str): ValueError for a string that is
\* no ISO date or names no day of the calendar, TypeError for a value that is
\* no string.
ValidDate(y, m, d) ==
  /\ y \in 1..9999 /\ m \in 1..12 /\ d >= 1 /\ d <= DaysInMonth(y, m)
fromisoformat(str) ==
  IF str.kind = "iso" /\ ValidDate(str.y, str.m, str.d)
    THEN [ok |-> TRUE, y |-> str.y, m |-> str.m, d |-> str.d, h |-> str.h,
          aware |-> str.aware]
    ELSE [ok |-> FALSE, y |-> 0, m |-> 0, d |-> 0, h |-> 0, aware |-> FALSE]

\* Lines 205-215: the warranty length, first matching rule.
warranty_years(product_name, product_type) ==
  IF Contains(SunPowerX, product_name) THEN 25
  ELSE IF Contains(SunPowerY, product_name) THEN 20
  ELSE IF Contains(SunPowerDoubleX, product_name) THEN 30
  ELSE IF Contains(InverterType, Lower(product_type)) THEN 10
  ELSE 5

\* purchase_date.replace(year=...): ValueError when the year has no such day
\* or is past 9999.
replace_year(dt, year) ==
  [ok |-> ValidDate(year, dt.m, dt.d), y |-> year, m |-> dt.m, d |-> dt.d,
   h |-> dt.h, aware |-> dt.aware]

\* (warranty_end_date - today).days: whole days, rounded down.
days_between(end, today) == (Hours(end) - Hours(today)) \div 24

\* round(x, 1) of n / d * 100 for n >= 0, in tenths of a percent, half to even.
RoundHalfEven(n, d) ==
  LET q == n \div d
      r == n % d
  IN IF 2 * r < d THEN q
     ELSE IF 2 * r > d THEN q + 1
     ELSE IF q % 2 = 0 THEN q ELSE q + 1

\* days_remaining reported as computed, without the floor at zero.
MaxUnfloored(a, b) == b

Max(a, b) == IF a >= b THEN a ELSE b

get_claim_process(product_name) ==
  IF Contains(SunPower, product_name) THEN "SunPower warranty portal"
  ELSE "customer support"

ErrorEntry(product) ==
  [product_name |-> product.product_name,
   error |-> "Could not determine warranty status due to invalid purchase date"]

\* The entry of one product with the percentage taken from the days elapsed
\* since the purchase instead of the days remaining.
warranty_entry_elapsed(product, today) ==
  LET purchase_date == fromisoformat(product.purchase_date)
      years == warranty_years(product.product_name, product.product_type)
      warranty_end_date == replace_year(purchase_date, purchase_date.y + years)
      days_remaining == days_between(warranty_end_date, today)
      days_elapsed == days_between(today, purchase_date)
      warranty_active == days_remaining > 0
  IN IF ~purchase_date.ok \/ ~warranty_end_date.ok \/ warranty_end_date.aware
       THEN ErrorEntry(product)
       ELSE [product_name |-> product.product_name,
             purchase_date |-> product.purchase_date,
             warranty_length_years |-> years,
             warranty_end_date |-> warranty_end_date,
             warranty_active |-> warranty_active,
             days_remaining |-> Max(0, days_remaining),
             warranty_percentage_remaining |->
               RoundHalfEven(Max(0, days_elapsed) * 1000, years * 365),
             claim_process |-> IF warranty_active
                                 THEN get_claim_process(product.product_name)
                                 ELSE "Warranty expired"]

\* Lines 196-236: the entry of one product. The try block catches the
\* ValueError of fromisoformat and of replace, and the TypeError of
\* subtracting the naive today from an offset-aware end date.
warranty_entry(product, today) ==
  LET purchase_date == fromisoformat(product.purchase_date)
      years == warranty_years(product.product_name, product.product_type)
      warranty_end_date == replace_year(purchase_date, purchase_date.y + years)
      days_remaining == days_between(warranty_end_date, today)
      warranty_active == days_remaining > 0
  IN IF ~purchase_date.ok \/ ~warranty_end_date.ok \/ warranty_end_date.aware
       THEN ErrorEntry(product)
       ELSE [product_name |-> product.product_name,
             purchase_date |-> product.purchase_date,
             warranty_length_years |-> years,
             warranty_end_date |-> warranty_end_date,
             warranty_active |-> warranty_active,
             days_remaining |-> Max(0, days_remaining),
             warranty_percentage_remaining |->
               RoundHalfEven(Max(0, days_remaining) * 1000, years * 365),
             claim_process |-> IF warranty_active
                                 THEN get_claim_process(product.product_name)
                                 ELSE "Warranty expired"]

\* Lines 186-189: all the purchases, or those whose name holds product_name,
\* whatever the case.
RECURSIVE select_products(_, _)
select_products(purchase_history, product_name) ==
  IF purchase_history = <<>> THEN <<>>
  ELSE LET p == Head(purchase_history)
           rest == select_products(Tail(purchase_history), product_name)
       IN IF product_name = <<>>
               \/ Contains(Lower(product_name), Lower(p.product_name))
            THEN <<p>> \o rest ELSE rest

\* check_warranty_status giving up on the first purchase date it cannot read.
check_warranty_status_aborts(customer_id, email, product_name, profile, today) ==
  LET selected == select_products(profile.purchase_history, product_name)
  IN IF selected = <<>>
       THEN [status |-> "error",
             message |-> "No matching products found in purchase history"]
     ELSE IF \E i \in 1..Len(selected) :
               ~fromisoformat(selected[i].purchase_date).ok
       THEN [status |-> "error", message |-> "invalid purchase date"]
     ELSE [status |-> "success",
           customer_name |-> profile.name,
           warranty_information |->
             [i \in 1..Len(selected) |-> warranty_entry(selected[i], today)]]

\* Lines 173-242. customer_id and email are empty sequences when not given,
\* as is product_name; profile is what the lookup gave.
check_warranty_status(customer_id, email, product_name, profile, today) ==
  IF customer_id = <<>> /\ email = <<>>
    THEN [status |-> "error",
          message |-> "Either customer_id or email must be provided"]
  ELSE IF ~profile.found
    THEN [status |-> "error", message |-> "Customer profile not found"]
  ELSE
    LET selected == select_products(profile.purchase_history, product_name)
    IN IF selected = <<>>
         THEN [status |-> "error",
               message |-> "No matching products found in purchase history"]
         ELSE [status |-> "success",
               customer_name |-> profile.name,
               warranty_information |->
                 [i \in 1..Len(selected) |-> warranty_entry(selected[i], today)]]

NoRequest ==
  [customer_id |-> <<>>, email |-> <<>>, product_name |-> <<>>,
   profile |-> [found |-> FALSE, name |-> "", purchase_history |-> <<>>],
   today |-> [y |-> 1, m |-> 1, d |-> 1, h |-> 0]]
NotCalled == [status |-> "not called"]

CheckWarrantyStatus ==
  /\ wres = NotCalled
  /\ wres' = check_warranty_status(wreq.customer_id, wreq.email,
                                   wreq.product_name, wreq.profile, wreq.today)
  /\ UNCHANGED <<exists, items, ssm, clock, pc, loc, lastw, last, wreq,
                 analysis, tres, tickets>>

\* ---------------------------------------- analyze_solar_system_performance
MaxQuantity == 2

SolarMax == <<"S", "o", "l", "a", "r", "M", "a", "x">>

\* Lines 105-113: the estimated wattage of a panel model, first matching rule.
panel_wattage_default(model_name) == 300

panel_wattage(model_name) ==
  IF Contains(SunPowerX, model_name) THEN 320
  ELSE IF Contains(SunPowerY, model_name) THEN 290
  ELSE IF Contains(SunPowerDoubleX, model_name) THEN 400
  ELSE 300

\* purchase.get("quantity", 1)
quantity_of(purchase) ==
  IF "quantity" \in DOMAIN purchase THEN purchase.quantity ELSE 1

\* Line 91: the purchases whose product_type is "panel".
panel_purchases(purchase_history) ==
  LET IsPanel(p) == p.product_type = PanelType
  IN SelectSeq(purchase_history, IsPanel)

\* Lines 97-116: the capacity in watts and the list of panel models.
RECURSIVE total_capacity(_)
total_capacity(panels) ==
  IF panels = <<>> THEN 0
  ELSE panel_wattage(Head(panels).product_name) * quantity_of(Head(panels))
         + total_capacity(Tail(panels))
panel_models(panels) ==
  [i \in 1..Len(panels) |->
     [model |-> panels[i].product_name,
      quantity |-> quantity_of(panels[i]),
      wattage |-> panel_wattage(panels[i].product_name)]]

\* Lines 122-130: the days of the period and the efficiency in percent; any
\* period other than month and quarter is taken as a year.
period_days(time_period) ==
  IF time_period = "month" THEN 30
  ELSE IF time_period = "quarter" THEN 90
  ELSE 365
period_efficiency(time_period) ==
  IF time_period = "month" THEN 92
  ELSE IF time_period = "quarter" THEN 89
  ELSE 87

\* Lines 245-264, on the efficiency in percent.
generate_recommendations(efficiency) ==
  IF efficiency >= 95 THEN "excellent"
  ELSE IF efficiency >= 85 THEN "adequate"
  ELSE "below expectations"

\* round(n / d, 2) in hundredths, for n >= 0. The quotient is a binary
\* floating point number: where n / d lies exactly between two hundredths
\* its float lies a hair on one side or the other, and `up` says which.
round2(n, d, up) ==
  LET q == n \div d
      r == n % d
  IN IF 2 * r < d THEN q
     ELSE IF 2 * r > d THEN q + 1
     ELSE IF up THEN q + 1 ELSE q

\* Lines 77-157. customer_id and email are empty sequences when not given;
\* profile is what the lookup gave. kWh are in hundredths, the ratio in
\* tenths of a percent: expected_kwh = capacity * 5.5 / 1000 * days,
\* actual_kwh = capacity * 5.5 / 1000 * efficiency * days.
analyze_solar_system_performance(customer_id, email, time_period, profile, ups) ==
  IF customer_id = <<>> /\ email = <<>>
    THEN [status |-> "error",
          message |-> "Either customer_id or email must be provided"]
  ELSE IF ~profile.found
    THEN [status |-> "error", message |-> "Customer profile not found"]
  ELSE
    LET panels == panel_purchases(profile.purchase_history)
        capacity == total_capacity(panels)
        days == period_days(time_period)
        efficiency == period_efficiency(time_period)
    IN IF panels = <<>>
         THEN [status |-> "error",
               message |-> "No solar panels found in customer purchase history"]
         ELSE [status |-> "success",
               customer_name |-> profile.name,
               system_details |->
                 [total_capacity_watts |-> capacity,
                  panel_models |-> panel_models(panels)],
               performance_analysis |->
                 [time_period |-> time_period,
                  expected_kwh_production |->
                    round2(capacity * 11 * days, 20, ups[1]),
                  actual_kwh_production |->
                    round2(capacity * 11 * efficiency * days, 2000, ups[2]),
                  performance_ratio |-> efficiency * 10,
                  avg_daily_production_kwh |->
                    round2(capacity * 11 * efficiency, 2000, ups[3])],
               recommendations |-> generate_recommendations(efficiency)]

NoAnalysis ==
  [customer_id |-> <<>>, email |-> <<>>, time_period |-> "month",
   profile |-> [found |-> FALSE, name |-> "", purchase_history |-> <<>>]]

AnalyzeSolarSystemPerformance ==
  /\ ares = NotCalled
  /\ \E ups \in [1..3 -> BOOLEAN] :
       ares' = analyze_solar_system_performance(
                 areq.customer_id, areq.email, areq.time_period, areq.profile,
                 ups)
  /\ UNCHANGED <<exists, items, ssm, clock, pc, loc, lastw, last, warranty,
                 areq, tres, tickets>>

\* -------------------------------------------------------------- jira_tools
MaxTickets == 2

NotConfigured ==
  [status |-> "error", message |-> "Jira integration is not properly configured"]

\* Lines 82-98: the issue sent to the tracker. Texts are sequences of words;
\* the description opens with the words "Customer ID:" and the customer id,
\* then "Customer Email:" and the address when one is given, then the
\* description of the caller.
issue_payload(customer_id, title, description, ticket_type, customer_email) ==
  LET customer_info ==
        <<"Customer", "ID:", customer_id>>
          \o (IF customer_email # None
                THEN <<"Customer", "Email:", customer_email>> ELSE <<>>)
  IN [project |-> "SOLAR",
      summary |-> title,
      description |-> customer_info \o description,
      issuetype |-> "Task",
      labels |-> {<<ticket_type>>, <<"customer", customer_id>>}]

\* jira.issue_create_or_update(issue_payload): the tracker files the issue
\* under the next key of the project.
issue_create(iss, payload) ==
  Append(iss, [key |-> <<"SOLAR", Len(iss) + 1>>,
               fields |-> [summary |-> payload.summary,
                           description |-> payload.description,
                           status |-> "To Do",
                           issuetype |-> payload.issuetype,
                           labels |-> payload.labels,
                           created |-> Len(iss) + 1,
                           updated |-> Len(iss) + 1]])

\* Lines 56-112; f names the tracker call that fails.
CreateSolarSupportTicket(customer_id, title, description, ticket_type, customer_email, f) ==
  /\ Len(issues) < MaxTickets
  /\ IF ~jira
       THEN /\ jres' = [op |-> "create_solar_support_ticket",
                        customer_id |-> customer_id, result |-> NotConfigured]
            /\ UNCHANGED issues
     ELSE IF f # "none"
       THEN /\ jres' = [op |-> "create_solar_support_ticket",
                        customer_id |-> customer_id,
                        result |-> [status |-> "error",
                                    message |-> "Failed to create Jira ticket"]]
            /\ UNCHANGED issues
     ELSE /\ issues' = issue_create(issues,
                          issue_payload(customer_id, title, description,
                                        ticket_type, customer_email))
          /\ jres' = [op |-> "create_solar_support_ticket",
                      customer_id |-> customer_id,
                      result |-> [status |-> "success",
                                  message |-> <<ticket_type, "support ticket created successfully">>,
                                  ticket_key |-> <<"SOLAR", Len(issues) + 1>>]]
  /\ UNCHANGED <<exists, items, ssm, clock, pc, loc, lastw, last, warranty,
                 analysis, tres, jira>>

\* Line 135: the text the query looks for in the description.
jql_text(customer_id) == <<"Customer", "ID:", customer_id>>

\* jira.jql('project = KEY AND description ~ "..."'): the issues whose
\* description holds the words of the text, one after the other, anywhere.
jql(iss, text) ==
  SelectSeq(iss, LAMBDA issue : Contains(text, issue.fields.description))

\* Lines 140-150: the summary of one issue.
ticket_of(issue) ==
  [key |-> issue.key,
   summary |-> issue.fields.summary,
   status |-> issue.fields.status,
   type |-> issue.fields.issuetype,
   created |-> issue.fields.created,
   updated |-> issue.fields.updated]

\* Lines 126-161.
get_customer_tickets(customer_id, f, configured, iss) ==
  IF ~configured THEN NotConfigured
  ELSE IF f # "none"
    THEN [status |-> "error", message |-> "Failed to retrieve customer tickets"]
  ELSE LET found == jql(iss, jql_text(customer_id))
           tickets_found == [i \in 1..Len(found) |-> ticket_of(found[i])]
       IN [status |-> "success",
           count |-> Len(tickets_found),
           tickets |-> tickets_found]

GetCustomerTickets(customer_id, f) ==
  /\ jres' = [op |-> "get_customer_tickets", customer_id |-> customer_id,
              result |-> get_customer_tickets(customer_id, f, jira, issues)]
  /\ UNCHANGED <<exists, items, ssm, clock, pc, loc, lastw, last, warranty,
                 analysis, tres, jira, issues>>

\* ------------------------------------------- the tools over the store
\* Lines 12-15: the table the tools address, read from the parameter store
\* when the module is loaded; with no pointer there it is the default table.
table_name == DefaultTable

\* `not x`: None and the empty string count as not given.
Truthy(x) == x \notin {None, ""}
Given(x) == IF Truthy(x) THEN <<x>> ELSE <<>>

EcoChargeController ==
  <<"E", "c", "o", "C", "h", "a", "r", "g", "e", " ",
    "C", "o", "n", "t", "r", "o", "l", "l", "e", "r">>
ControllerType == <<"c", "o", "n", "t", "r", "o", "l", "l", "e", "r">>

\* The characters of the product names and types the store holds.
Spell ==
  ("SunPower X" :> SunPowerX) @@ ("SunPower Y" :> SunPowerY)
    @@ ("SunPower Double-X" :> SunPowerDoubleX)
    @@ ("PowerWall Battery" :> PowerWallBattery)
    @@ ("SolarInverter X1" :> SolarInverterX1)
    @@ ("EcoCharge Controller" :> EcoChargeController)
    @@ ("panel" :> PanelType) @@ ("battery" :> BatteryType)
    @@ ("inverter" :> InverterType) @@ ("controller" :> ControllerType)

\* datetime.now() at clock reading c: the hours of 2026-03-01. A stored
\* purchase date is that year's, with the month and day of the purchase.
wall(c) == [y |-> 2026, m |-> 3, d |-> 1, h |-> c]
stored_purchase(p) ==
  [product_name |-> Spell[p.product_name],
   product_type |-> Spell[p.product_type],
   quantity |-> p.quantity,
   purchase_date |->
     IsoDate(2026, p.purchase_date.month, p.purchase_date.day, 0, FALSE)]

\* The profile a lookup gave, as the tools read it: profile.get('name') and
\* profile.get('purchase_history', []).
NoProfile == [found |-> FALSE, name |-> "", purchase_history |-> <<>>]
profile_of(g) ==
  IF ~g.found THEN NoProfile
  ELSE [found |-> TRUE,
        name |-> g.item["name"],
        purchase_history |->
          [i \in 1..Len(g.item["purchase_history"]) |->
             stored_purchase(g.item["purchase_history"][i])]]

\* A tool that looks the profile up without testing its arguments first.
tool_lookup_unchecked(customer_id, email, f, ex, its) ==
  {[calls |-> 1, op |-> "get_profile_by_id", key |-> customer_id,
    found |-> g.found, item |-> g.item] :
     g \in {get_profile_by_id(customer_id, table_name, f, ex, its)}}

\* Lines 30-37, 77-84 and 173-180: no call of the profile store with neither
\* argument given, get_profile_by_id with a customer_id, get_profile_by_email
\* with an email alone. The set holds what the lookup may give: the query
\* by email gives any one of the profiles with that email.
tool_lookup(customer_id, email, f, ex, its) ==
  IF ~Truthy(customer_id) /\ ~Truthy(email)
    THEN {[calls |-> 0, op |-> None, key |-> None,
           found |-> FALSE, item |-> EmptyItems]}
  ELSE IF Truthy(customer_id)
    THEN {[calls |-> 1, op |-> "get_profile_by_id", key |-> customer_id,
           found |-> g.found, item |-> g.item] :
            g \in {get_profile_by_id(customer_id, table_name, f, ex, its)}}
  ELSE LET hits == IF f # "none" \/ table_name \notin ex THEN {}
                   ELSE EmailMatches(email, its[table_name])
       IN IF hits = {}
            THEN {[calls |-> 1, op |-> "get_profile_by_email", key |-> email,
                   found |-> FALSE, item |-> EmptyItems]}
            ELSE {[calls |-> 1, op |-> "get_profile_by_email", key |-> email,
                   found |-> TRUE, item |-> its[table_name][c]] : c \in hits}

\* Lines 30-42.
get_customer_profile(customer_id, email, g) ==
  IF ~Truthy(customer_id) /\ ~Truthy(email)
    THEN [status |-> "error",
          message |-> "Either customer_id or email must be provided"]
  ELSE IF ~g.found
    THEN [status |-> "error", message |-> "Customer profile not found"]
  ELSE g.item

\* What a tool call leaves behind: its result in tres and, when it called
\* the profile store, that call in last.
ToolCalled(tool, customer_id, email, f, g, result) ==
  /\ tres' = [tool |-> tool, customer_id |-> customer_id, email |-> email,
              lookups |-> g.calls, result |-> result]
  /\ last' = IF g.calls = 0 THEN last
             ELSE Outcome(g.op, "tool", table_name, g.key, f,
                          IF g.found THEN "item" ELSE "None", EmptyItems,
                          Absent)
  /\ UNCHANGED <<exists, items, ssm, clock, pc, loc, lastw, warranty,
                 analysis, tickets>>

GetCustomerProfile(customer_id, email, f) ==
  \E g \in tool_lookup(customer_id, email, f, exists, items) :
    ToolCalled("get_customer_profile", customer_id, email, f, g,
               get_customer_profile(customer_id, email, g))

AnalyzePerformance(customer_id, email, time_period, f) ==
  \E g \in tool_lookup(customer_id, email, f, exists, items),
     ups \in [1..3 -> BOOLEAN] :
    ToolCalled("analyze_solar_system_performance", customer_id, email, f, g,
               analyze_solar_system_performance(
                 Given(customer_id), Given(email), time_period,
                 profile_of(g), ups))

CheckWarranty(customer_id, email, product_name, f) ==
  \E g \in tool_lookup(customer_id, email, f, exists, items) :
    ToolCalled("check_warranty_status", customer_id, email, f, g,
               check_warranty_status(
                 Given(customer_id), Given(email), product_name,
                 profile_of(g), wall(clock)))

\* ------------------------------------------------------ the specification
StoreInit ==
  /\ exists = {}
  /\ items = [t \in AllTables |-> EmptyItems]
  /\ ssm = NoParam
  /\ clock = 0
  /\ pc = [p \in Procs |-> "idle"]
  /\ loc = [p \in Procs |-> IdleLocals]
  /\ lastw = [t \in AllTables |-> EmptyItems]
  /\ last = [op |-> "init", proc |-> None, tn |-> None, cid |-> None,
             fail |-> "none", res |-> None, upd |-> EmptyItems,
             seenAt |-> Absent, existed |-> FALSE, prePtr |-> NoParam]

WarrantyIdle == wreq = NoRequest /\ wres = NotCalled
AnalysisIdle == areq = NoAnalysis /\ ares = NotCalled
ToolsIdle == tres = NotCalled
TicketsIdle == jira = FALSE /\ issues = <<>> /\ jres = NotCalled

Init ==
  /\ StoreInit
  /\ WarrantyIdle
  /\ AnalysisIdle
  /\ ToolsIdle
  /\ TicketsIdle

Quiet == \A p \in Procs : pc[p] = "idle"

\* One client, one call at a time, over both stores: every operation of the
\* client, every table name, every external call failing or not.
Next ==
  \/ \E t \in TableArgs, f \in CreateFailures : Quiet /\ CreateTable(t, f)
  \/ \E t \in TableArgs, f \in DeleteFailures : Quiet /\ DeleteTable(t, f)
  \/ \E n \in 0..MaxCount, t \in DataTableArgs, f \in {"none", "put_item"} :
       Quiet /\ GenerateSyntheticProfiles(n, t, f)
  \/ \E c \in CustomerArgs, t \in DataTableArgs, f \in {"none", "get_item"} :
       Quiet /\ GetProfileById(c, t, f)
  \/ \E e \in EmailArgs, t \in DataTableArgs, f \in {"none", "query"} :
       Quiet /\ GetProfileByEmail(e, t, f)
  \/ \E t \in TableNames, f \in {"none", "describe_table"} :
       Quiet /\ TableExists(t, f)
  \/ \E f \in {"none", "get_parameter"} : Quiet /\ GetTableNameFromSsm(f)
  \/ \E c \in CustomerArgs, u \in UpdateArgs, t \in DataTableArgs,
        f \in {"none", "get_item"} : UpdateCheck("p1", c, u, t, f)
  \/ \E f \in {"none", "update_item"} : UpdateWrite("p1", f)

Spec == Init /\ [][Next]_vars

\* One administrator creating and deleting tables of three names or of no
\* name given, one call at a time, with no external call failing.
NextTables ==
  \/ \E t \in AllTables \cup {None} : CreateTable(t, "none")
  \/ \E t \in AllTables \cup {None} : DeleteTable(t, "none")

SpecTables == Init /\ [][NextTables]_vars

\* Two clients updating profiles of the default table while the table is
\* created, filled and deleted under them.
NextUpdate ==
  \/ CreateTable(None, "none")
  \/ DeleteTable(None, "none")
  \/ \E n \in 0..MaxCount : GenerateSyntheticProfiles(n, None, "none")
  \/ \E p \in Procs, c \in CustomerArgs, u \in UpdateArgs,
        f \in {"none", "get_item"} : UpdateCheck(p, c, u, None, f)
  \/ \E p \in Procs, f \in {"none", "update_item"} : UpdateWrite(p, f)

SpecUpdate == Init /\ [][NextUpdate]_vars

\* check_warranty_status over every purchase history of up to MaxPurchases
\* purchases drawn from the catalog and the purchase dates below.
Catalog ==
  {[name |-> SunPowerX, type |-> PanelType],
   [name |-> SunPowerY, type |-> PanelType],
   [name |-> SunPowerDoubleX, type |-> PanelType],
   [name |-> SolarInverterX1, type |-> InverterType],
   [name |-> PowerWallBattery, type |-> BatteryType]}

NoDate(kind) ==
  [kind |-> kind, y |-> 0, m |-> 0, d |-> 0, h |-> 0, aware |-> FALSE]
\* "2020-06-15T12:00:00", "2024-02-29T00:00:00", "2000-03-01T12:00:00",
\* "2020-06-15T12:00:00+00:00", "not a date", and no purchase_date at all.
OrdinaryDate == IsoDate(2020, 6, 15, 12, FALSE)
LeapDate == IsoDate(2024, 2, 29, 0, FALSE)
OldDate == IsoDate(2000, 3, 1, 12, FALSE)
PurchaseDates ==
  {OrdinaryDate, LeapDate, OldDate,
   IsoDate(2020, 6, 15, 12, TRUE), NoDate("text"), NoDate("missing")}
WellFormed(str) == str.kind = "iso" /\ ValidDate(str.y, str.m, str.d)

\* Every product of the catalog bought on the ordinary date, SunPower X on
\* every date, SunPower Y on the leap day, the battery in 2000.
Purchases ==
  {p \in {[product_name |-> c.name, product_type |-> c.type,
           purchase_date |-> d] : c \in Catalog, d \in PurchaseDates} :
     \/ p.purchase_date = OrdinaryDate
     \/ p.product_name = SunPowerX
     \/ p.product_name = SunPowerY /\ p.purchase_date = LeapDate
     \/ p.product_name = PowerWallBattery /\ p.purchase_date = OldDate}
Histories == UNION {[1..n -> Purchases] : n \in 0..MaxPurchases}
\* datetime.now(): 2026-03-01T00:00, 2025-03-01T00:00 and the ordinary
\* purchase date itself, 2020-06-15T12:00
Todays == {[y |-> 2026, m |-> 3, d |-> 1, h |-> 0],
           [y |-> 2025, m |-> 3, d |-> 1, h |-> 0],
           [y |-> 2020, m |-> 6, d |-> 15, h |-> 12]}
ProductFilters == {<<>>, SunPowerFilter}

WarrantyInit ==
  /\ StoreInit
  /\ wreq \in [customer_id : {Cust100}, email : {<<>>},
               product_name : ProductFilters,
               profile : [found : {TRUE}, name : {"Customer 1"},
                          purchase_history : Histories],
               today : Todays]
  /\ wres = NotCalled
  /\ AnalysisIdle
  /\ ToolsIdle
  /\ TicketsIdle

NextWarranty == CheckWarrantyStatus

SpecWarranty == WarrantyInit /\ [][NextWarranty]_vars

\* analyze_solar_system_performance over every purchase history of up to
\* MaxPurchases purchases: the three panels of the catalog and a panel of
\* another make, in every quantity up to MaxQuantity or with none recorded,
\* and the battery and the inverter.
PanelNames == {SunPowerX, SunPowerY, SunPowerDoubleX, SolarMax}
PanelsBought ==
  {[product_name |-> n, product_type |-> PanelType, quantity |-> q] :
     n \in PanelNames, q \in 1..MaxQuantity}
    \cup {[product_name |-> n, product_type |-> PanelType] : n \in PanelNames}
OthersBought ==
  {[product_name |-> PowerWallBattery, product_type |-> BatteryType,
    quantity |-> 1],
   [product_name |-> SolarInverterX1, product_type |-> InverterType,
    quantity |-> 1]}
AnalysisHistories ==
  UNION {[1..n -> PanelsBought \cup OthersBought] : n \in 0..MaxPurchases}
TimePeriods == {"month", "quarter", "year", "week"}

AnalysisInit ==
  /\ StoreInit
  /\ WarrantyIdle
  /\ areq \in [customer_id : {Cust100}, email : {<<>>},
               time_period : TimePeriods,
               profile : [found : {TRUE}, name : {"Customer 1"},
                          purchase_history : AnalysisHistories]]
  /\ ares = NotCalled
  /\ ToolsIdle
  /\ TicketsIdle

\* The ticket tools called one after the other, with the tracker configured
\* or not, for two customers of whom one's id opens the other's, with
\* descriptions of which one quotes the line that names a customer.
TicketCustomers == {"CUST1", "CUST10"}
Descriptions ==
  {<<"inverter", "shows", "error">>,
   <<"same", "fault", "as", "Customer", "ID:", "CUST1">>,
   <<>>}
TicketEmails == {None, "customer1@example.com"}

TicketsInit ==
  /\ StoreInit
  /\ WarrantyIdle
  /\ AnalysisIdle
  /\ ToolsIdle
  /\ jira \in BOOLEAN
  /\ issues = <<>>
  /\ jres = NotCalled

NextTickets ==
  \/ \E c \in TicketCustomers, d \in Descriptions, e \in TicketEmails,
        f \in {"none", "issue_create_or_update"} :
       CreateSolarSupportTicket(c, "Support request", d, "Technical", e, f)
  \/ \E c \in TicketCustomers, f \in {"none", "jql"} :
       GetCustomerTickets(c, f)

SpecTickets == TicketsInit /\ [][NextTickets]_vars

\* The three tools called over the default table while it is created and
\* filled, with each argument None, empty or given, and with the call of the
\* profile store failing or not.
ToolCustomerArgs == {None, ""} \cup CustomerArgs
ToolEmailArgs == {None, "", CustomerEmail(0)}

NextTools ==
  \/ CreateTable(None, "none")
  \/ \E n \in 1..MaxCount : GenerateSyntheticProfiles(n, None, "none")
  \/ \E c \in ToolCustomerArgs, e \in ToolEmailArgs, f \in {"none", "get_item"} :
       GetCustomerProfile(c, e, f)
  \/ \E c \in ToolCustomerArgs, e \in ToolEmailArgs, t \in {"month", "year"},
        f \in {"none", "get_item"} :
       AnalyzePerformance(c, e, t, f)
  \/ \E c \in ToolCustomerArgs, e \in ToolEmailArgs, n \in ProductFilters,
        f \in {"none", "get_item"} :
       CheckWarranty(c, e, n, f)

SpecTools == Init /\ [][NextTools]_vars

NextAnalysis == AnalyzeSolarSystemPerformance

SpecAnalysis == AnalysisInit /\ [][NextAnalysis]_vars

\* ================================================================ claims
IsCall(l, op) == l.op = op

\* C1: create_table(T), when no external call fails, returns a handle to T,
\* leaves T existing and the pointer equal to T, whether T was absent or
\* already there; the records of a T that already existed, and every other
\* table, are left as they were.
C1_CreateTableIdempotent ==
  [][(IsCall(last', "create_table") /\ last'.fail = "none") =>
       /\ last'.res = last'.tn
       /\ last'.tn \in exists'
       /\ ssm' = last'.tn
       /\ exists' = exists \cup {last'.tn}
       /\ \A t \in exists : items'[t] = items[t]]_vars

\* C1 witness: create_table on a table that existed and held records, with
\* the pointer naming another table before the call.
C1_Witness ==
  /\ IsCall(last, "create_table") /\ last.fail = "none"
  /\ last.existed
  /\ DOMAIN items[last.tn] # {}
  /\ last.prePtr \notin {NoParam, last.tn}
  /\ last.res = last.tn /\ ssm = last.tn

\* C2: delete_table(T), when no external call fails, returns True and leaves
\* T absent; on an absent T it changes no table.
C2_DeleteTableIdempotent ==
  [][(IsCall(last', "delete_table") /\ last'.fail = "none") =>
       /\ last'.res = "True"
       /\ last'.tn \notin exists'
       /\ (last'.tn \notin exists => (exists' = exists /\ items' = items))]_vars

\* C2 witness: delete_table on an absent table while another table exists.
C2_Witness ==
  /\ IsCall(last, "delete_table") /\ last.fail = "none"
  /\ ~last.existed
  /\ exists # {}
  /\ last.res = "True"

\* C3 as stated: after any delete_table that returns True the pointer is
\* absent.
C3_PointerAlwaysCleared ==
  (IsCall(last, "delete_table") /\ last.res = "True") => ssm = NoParam

\* C3 amended: after delete_table(T) returns True the pointer is absent when
\* it named T (or was absent) before the call, and is what it was otherwise.
C3_PointerClearedWhenItNamesTable ==
  (IsCall(last, "delete_table") /\ last.res = "True") =>
    ssm = IF last.prePtr = last.tn THEN NoParam ELSE last.prePtr

\* C3 witness: delete_table(T) of an existing table the pointer named.
C3_Witness ==
  /\ IsCall(last, "delete_table") /\ last.res = "True"
  /\ last.existed
  /\ last.prePtr = last.tn
  /\ ssm = NoParam

\* C4: update_profile for a key that is not in the table returns None, stores
\* nothing and ends without reaching the write call.
C4_UpdateOfMissingRecord ==
  [][(/\ IsCall(last', "update_profile") \/ IsCall(last', "update_profile.check")
      /\ pc[last'.proc] = "idle"
      /\ last'.cid \notin DOMAIN items[last'.tn]) =>
       /\ last'.res = "None"
       /\ UNCHANGED <<exists, items, ssm, lastw, pc, loc>>]_vars

\* C4 witness: the update of an unknown customer in a table that holds other
\* records came back None.
C4_Witness ==
  /\ IsCall(last, "update_profile") /\ last.fail = "none"
  /\ last.cid = UnknownCustomer
  /\ last.existed /\ DOMAIN items[last.tn] # {}
  /\ "name" \in DOMAIN last.upd
  /\ last.res = "None"

\* A successful update_profile of a record that was in the table.
Updated(l, its) ==
  /\ IsCall(l, "update_profile") /\ l.res = "item"
  /\ l.cid \in DOMAIN its[l.tn]

\* C5 as stated: after a successful update every supplied field holds the
\* supplied value, the other fields are as before, and updated_at is strictly
\* later than before.
C5_UpdateThenGet ==
  [][Updated(last', items) =>
       LET old == items[last'.tn][last'.cid]
           new == items'[last'.tn][last'.cid]
       IN /\ \A f \in DOMAIN last'.upd : new[f] = last'.upd[f]
          /\ \A f \in (DOMAIN old) \ ((DOMAIN last'.upd) \cup {"updated_at"}) :
               f \in DOMAIN new /\ new[f] = old[f]
          /\ new["updated_at"] > old["updated_at"]]_vars

\* C5 amended: every supplied field other than updated_at holds the supplied
\* value, the fields not supplied other than updated_at are as before, and
\* updated_at is the update's own stamp, strictly later than before, whatever
\* updated_at the caller supplied.
C5_UpdateThenGetStampsOver ==
  [][Updated(last', items) =>
       LET old == items[last'.tn][last'.cid]
           new == items'[last'.tn][last'.cid]
       IN /\ \A f \in (DOMAIN last'.upd) \ {"updated_at"} : new[f] = last'.upd[f]
          /\ \A f \in (DOMAIN old) \ ((DOMAIN last'.upd) \cup {"updated_at"}) :
               f \in DOMAIN new /\ new[f] = old[f]
          /\ DOMAIN new = DOMAIN old
          /\ new["updated_at"] > old["updated_at"]
          /\ new["updated_at"] = clock]_vars

\* C5 witness: an update that supplied its own updated_at went through and the
\* record carries the supplied email and a later stamp than the one supplied.
C5_Witness ==
  /\ IsCall(last, "update_profile") /\ last.res = "item"
  /\ {"updated_at", "email"} \subseteq DOMAIN last.upd
  /\ DOMAIN items[last.tn][last.cid] = Fields
  /\ items[last.tn][last.cid]["email"] = last.upd["email"]
  /\ items[last.tn][last.cid]["updated_at"] > last.upd["updated_at"]

\* C6 as stated: none of the seven operations ends by raising.
C6_NoOperationRaises ==
  last.op \in {"create_table", "delete_table", "get_profile_by_id",
               "get_profile_by_email", "update_profile", "table_exists",
               "get_table_name_from_ssm"}
    => last.res # "raised"

\* C7: every attribute of every stored item holds the value of the latest
\* write call that supplied it, and no attribute a write call supplied is
\* missing from the item.
C7_LastWriteWinsPerField ==
  \A t \in TableNames :
    \A c \in DOMAIN lastw[t] :
      /\ c \in DOMAIN items[t]
      /\ \A f \in DOMAIN lastw[t][c] :
           f \in DOMAIN items[t][c] /\ items[t][c][f] = lastw[t][c][f]

\* C7 witness: two updates of one record overlapped; the one stamped first
\* wrote last. The record has its name and its (earlier) stamp, and the email
\* only the other update supplied.
C7_Witness ==
  /\ IsCall(last, "update_profile") /\ last.res = "item"
  /\ Quiet
  /\ DOMAIN items[last.tn][last.cid] = Fields
  /\ items[last.tn][last.cid]["name"] = "A"
  /\ items[last.tn][last.cid]["email"] = "dup@example.com"
  /\ items[last.tn][last.cid]["updated_at"] = 2
  /\ clock = 3

\* ------------------------------------------------ check_warranty_status
\* The purchases the call selected, in purchase order.
Selected ==
  LET Matches(p) ==
        \/ wreq.product_name = <<>>
        \/ Contains(Lower(wreq.product_name), Lower(p.product_name))
  IN SelectSeq(wreq.profile.purchase_history, Matches)

Returned == wres # NotCalled
IsFull(entry) == "error" \notin DOMAIN entry

\* The warranty length the rules give, in their order.
RuleYears(p) ==
  IF Contains(SunPowerX, p.product_name) THEN 25
  ELSE IF Contains(SunPowerY, p.product_name) THEN 20
  ELSE IF Contains(SunPowerDoubleX, p.product_name) THEN 30
  ELSE IF Contains(InverterType, Lower(p.product_type)) THEN 10
  ELSE 5

\* C8 as stated: every selected purchase with a well-formed ISO date gets a
\* full entry whose warranty_end_date is the purchase date with the year
\* raised by the warranty length of the first matching rule.
C8_WellFormedDateGetsFullEntry ==
  (Returned /\ Selected # <<>>) =>
    /\ wres.status = "success"
    /\ \A i \in 1..Len(Selected) :
         LET p == Selected[i]
             e == wres.warranty_information[i]
         IN WellFormed(p.purchase_date) =>
              /\ IsFull(e)
              /\ e.warranty_length_years = RuleYears(p)
              /\ e.warranty_end_date.y = p.purchase_date.y + RuleYears(p)
              /\ e.warranty_end_date.m = p.purchase_date.m
              /\ e.warranty_end_date.d = p.purchase_date.d
              /\ e.warranty_end_date.h = p.purchase_date.h

\* C9: in every full entry days_remaining is not negative and warranty_active
\* is true exactly when days_remaining is positive; a SunPower X bought 26
\* years before today is reported inactive with no days remaining.
C9_DaysRemainingAndActive ==
  (Returned /\ Selected # <<>>) =>
    \A i \in 1..Len(Selected) :
      LET p == Selected[i]
          e == wres.warranty_information[i]
      IN /\ IsFull(e) =>
              /\ e.days_remaining >= 0
              /\ e.warranty_active <=> (e.days_remaining > 0)
         /\ (/\ p.product_name = SunPowerX
             /\ WellFormed(p.purchase_date) /\ ~p.purchase_date.aware
             /\ p.purchase_date.y + 26 = wreq.today.y
             /\ p.purchase_date.m = wreq.today.m
             /\ p.purchase_date.d = wreq.today.d) =>
              /\ IsFull(e)
              /\ e.warranty_active = FALSE
              /\ e.days_remaining = 0

\* C9 witness: one call reported a SunPower X bought 26 years before today,
\* expired, and a purchase whose warranty still runs.
C9_Witness ==
  /\ Returned /\ Len(Selected) = 2
  /\ Selected[1].product_name = SunPowerX
  /\ Selected[1].purchase_date.kind = "iso"
  /\ Selected[1].purchase_date.y + 26 = wreq.today.y
  /\ IsFull(wres.warranty_information[1])
  /\ ~wres.warranty_information[1].warranty_active
  /\ wres.warranty_information[1].days_remaining = 0
  /\ IsFull(wres.warranty_information[2])
  /\ wres.warranty_information[2].warranty_active
  /\ wres.warranty_information[2].days_remaining > 0

\* The purchase history without the purchases whose date is malformed or
\* missing.
Readable(p) == WellFormed(p.purchase_date)
ReadableHistory == SelectSeq(wreq.profile.purchase_history, Readable)

\* C10: with at least one purchase selected the call succeeds with one entry
\* per selected purchase, in purchase order; a purchase with a malformed or
\* missing date gets an error entry; the entries of the other purchases are
\* those of the call on the history without the malformed purchases.
C10_MalformedDatePerItem ==
  (Returned /\ Selected # <<>>) =>
    /\ wres.status = "success"
    /\ Len(wres.warranty_information) = Len(Selected)
    /\ \A i \in 1..Len(Selected) :
         /\ wres.warranty_information[i].product_name = Selected[i].product_name
         /\ ~Readable(Selected[i]) => ~IsFull(wres.warranty_information[i])
    /\ LET others == SelectSeq(Selected, Readable)
           kept == {i \in 1..Len(Selected) : Readable(Selected[i])}
           rerun == check_warranty_status(
                      wreq.customer_id, wreq.email, wreq.product_name,
                      [wreq.profile EXCEPT !.purchase_history = ReadableHistory],
                      wreq.today)
       IN others # <<>> =>
            /\ rerun.status = "success"
            /\ Len(rerun.warranty_information) = Cardinality(kept)
            /\ \A i \in kept :
                 wres.warranty_information[i] =
                   rerun.warranty_information[Cardinality({k \in kept : k <= i})]

\* C10 witness: a malformed date before a readable one; the first entry is an
\* error entry and the second a full one.
C10_Witness ==
  /\ Returned /\ Len(Selected) = 2
  /\ ~Readable(Selected[1]) /\ Readable(Selected[2])
  /\ wres.status = "success"
  /\ ~IsFull(wres.warranty_information[1])
  /\ IsFull(wres.warranty_information[2])

\* The days of datetime.now() not before the day of the call.
LaterTodays == {t \in Todays : Hours(t) >= Hours(wreq.today)}
OnPurchaseDate(p) == Hours(p.purchase_date) = Hours(wreq.today)
Expired(e) == Hours(e.warranty_end_date) <= Hours(wreq.today)

\* C11 as stated: the percentage of a full entry is the part of the warranty
\* that has elapsed: 0 on the purchase date, not smaller on a later day, 100
\* once the warranty has ended. Percentages are in tenths of a percent.
C11_PercentageElapsed ==
  (Returned /\ Selected # <<>>) =>
    \A i \in 1..Len(Selected) :
      LET p == Selected[i]
          e == wres.warranty_information[i]
      IN IsFull(e) =>
           /\ OnPurchaseDate(p) => e.warranty_percentage_remaining = 0
           /\ \A t \in LaterTodays :
                warranty_entry(p, t).warranty_percentage_remaining
                  >= e.warranty_percentage_remaining
           /\ Expired(e) => e.warranty_percentage_remaining = 1000

\* C11 amended: the percentage of a full entry is the part of the warranty
\* that remains: at least 100 on the purchase date, not greater on a later
\* day, 0 once the warranty has ended.
C11_PercentageRemaining ==
  (Returned /\ Selected # <<>>) =>
    \A i \in 1..Len(Selected) :
      LET p == Selected[i]
          e == wres.warranty_information[i]
      IN IsFull(e) =>
           /\ OnPurchaseDate(p) => e.warranty_percentage_remaining >= 1000
           /\ \A t \in LaterTodays :
                warranty_entry(p, t).warranty_percentage_remaining
                  <= e.warranty_percentage_remaining
           /\ Expired(e) => e.warranty_percentage_remaining = 0

\* C11 witness: a call on the day of a purchase whose history also holds a
\* purchase whose warranty has ended; the first entry reports at least 100,
\* the second 0, and the first would report less on a later day.
C11_Witness ==
  /\ Returned /\ Len(Selected) = 2
  /\ IsFull(wres.warranty_information[1])
  /\ IsFull(wres.warranty_information[2])
  /\ OnPurchaseDate(Selected[1])
  /\ wres.warranty_information[1].warranty_percentage_remaining >= 1000
  /\ Expired(wres.warranty_information[2])
  /\ wres.warranty_information[2].warranty_percentage_remaining = 0
  /\ \E t \in LaterTodays :
       warranty_entry(Selected[1], t).warranty_percentage_remaining
         < wres.warranty_information[1].warranty_percentage_remaining

\* ------------------------------------- analyze_solar_system_performance
Analyzed == ares # NotCalled
Panels ==
  SelectSeq(areq.profile.purchase_history,
            LAMBDA p : p.product_type = PanelType)

\* The wattage the rules give a panel, and the quantity bought.
RuleWattage(p) ==
  IF Contains(SunPowerX, p.product_name) THEN 320
  ELSE IF Contains(SunPowerY, p.product_name) THEN 290
  ELSE IF Contains(SunPowerDoubleX, p.product_name) THEN 400
  ELSE 300
RuleQuantity(p) == IF "quantity" \in DOMAIN p THEN p.quantity ELSE 1
RECURSIVE SumWatts(_)
SumWatts(ps) ==
  IF ps = <<>> THEN 0
  ELSE RuleWattage(Head(ps)) * RuleQuantity(Head(ps)) + SumWatts(Tail(ps))
RuleDays == [month |-> 30, quarter |-> 90, year |-> 365]
RuleEfficiency == [month |-> 92, quarter |-> 89, year |-> 87]
Abs(x) == IF x >= 0 THEN x ELSE 0 - x

\* C12: for month, quarter and year and a profile with a panel purchase the
\* call succeeds; the capacity is the sum of wattage x quantity over the
\* panel purchases; expected_kwh is capacity x 5.5 x days / 1000 and
\* actual_kwh is that times the efficiency, each to the nearest hundredth;
\* actual_kwh <= expected_kwh; one SunPower X of quantity 2 gives 640 W and,
\* for month, 105.60 kWh expected and 97.15 kWh actual.
C12_PerformanceNumbers ==
  (Analyzed /\ Panels # <<>> /\ areq.time_period \in DOMAIN RuleDays) =>
    LET days == RuleDays[areq.time_period]
        eff == RuleEfficiency[areq.time_period]
        cap == SumWatts(Panels)
        pa == ares.performance_analysis
    IN /\ ares.status = "success"
       /\ ares.system_details.total_capacity_watts = cap
       /\ pa.actual_kwh_production <= pa.expected_kwh_production
       /\ 2 * Abs(pa.expected_kwh_production * 20 - cap * 11 * days) <= 20
       /\ 2 * Abs(pa.actual_kwh_production * 2000 - cap * 11 * days * eff)
            <= 2000
       /\ (/\ Len(areq.profile.purchase_history) = 1
           /\ Panels[1].product_name = SunPowerX
           /\ RuleQuantity(Panels[1]) = 2
           /\ areq.time_period = "month") =>
             /\ cap = 640
             /\ pa.expected_kwh_production = 10560
             /\ pa.actual_kwh_production = 9715

\* C12 witness: the call for a month on a profile whose one purchase is two
\* SunPower X panels returned 640 W, 105.60 kWh and 97.15 kWh.
C12_Witness ==
  /\ Analyzed
  /\ Len(areq.profile.purchase_history) = 1
  /\ Panels # <<>>
  /\ Panels[1].product_name = SunPowerX
  /\ RuleQuantity(Panels[1]) = 2
  /\ areq.time_period = "month"
  /\ ares.status = "success"
  /\ ares.system_details.total_capacity_watts = 640
  /\ ares.performance_analysis.expected_kwh_production = 10560
  /\ ares.performance_analysis.actual_kwh_production = 9715

\* ------------------------------------------------------------ jira_tools
\* The keys of the issues created for customer x: create_solar_support_ticket
\* labels each issue with the customer it was created for.
CreatedFor(x) ==
  {issues[i].key : i \in {k \in 1..Len(issues) :
                             <<"customer", x>> \in issues[k].fields.labels}}
Listed == jres # NotCalled /\ jres.op = "get_customer_tickets"
                           /\ jres.result.status = "success"
ListedKeys ==
  {jres.result.tickets[i].key : i \in 1..Len(jres.result.tickets)}

\* C13 as stated: the tickets get_customer_tickets(X) returns are exactly the
\* tickets created with customer_id X, and count is their number.
C13_ExactlyTheCustomersTickets ==
  Listed =>
    /\ ListedKeys = CreatedFor(jres.customer_id)
    /\ jres.result.count = Len(jres.result.tickets)

\* ------------------------------------------------ the tools over the store
NeitherGiven(t) ==
  t # NotCalled /\ t.customer_id \in {None, ""} /\ t.email \in {None, ""}
NeitherError ==
  [status |-> "error", message |-> "Either customer_id or email must be provided"]

\* C14: a call of get_customer_profile, analyze_solar_system_performance or
\* check_warranty_status with neither customer_id nor email (each None or
\* empty) returns the error 'Either customer_id or email must be provided'
\* and makes no call of the profile store.
C14_NeitherIdNorEmail ==
  [][NeitherGiven(tres') /\ tres' # tres =>
       /\ tres'.result = NeitherError
       /\ tres'.lookups = 0
       /\ last' = last]_vars

\* C14 witness: over a filled table, check_warranty_status called with an
\* empty customer_id and no email returned the error without a lookup.
C14_Witness ==
  /\ NeitherGiven(tres)
  /\ tres.tool = "check_warranty_status"
  /\ tres.customer_id = "" /\ tres.email = None
  /\ tres.result = NeitherError
  /\ tres.lookups = 0
  /\ DefaultTable \in exists
  /\ DOMAIN items[DefaultTable] # {}
  /\ last.op = "generate_synthetic_profiles"

\* ------------------------------------------------------ the table pointer
\* C15: after any series of create_table and delete_table calls, one at a
\* time and none failing, from no table and no pointer, the pointer is absent
\* or names a table that exists.
C15_PointerNamesExistingTable == ssm = NoParam \/ ssm \in exists

\* C15 witness: delete_table of a table the pointer does not name has
\* returned, leaving the pointer on the other table, which exists.
C15_Witness ==
  /\ IsCall(last, "delete_table") /\ last.res = "True"
  /\ last.existed
  /\ last.tn \notin exists
  /\ ssm # NoParam /\ ssm # last.tn
  /\ ssm \in exists

\* ------------------------------------------- update_profile creates nothing
\* C16 as stated: under every interleaving of update_profile with
\* delete_table, create_table and generate_synthetic_profiles a write of
\* update_profile adds no customer_id to the table, and every stored record
\* carries all the profile fields.
C16_UpdateNeverCreatesRecord ==
  [][/\ (IsCall(last', "update_profile") /\ items' # items) =>
          DOMAIN items'[last'.tn] \subseteq DOMAIN items[last'.tn]
     /\ \A t \in AllTables :
          \A c \in DOMAIN items'[t] : DOMAIN items'[t][c] = Fields]_vars
====
